---------------------------- MODULE Spec2Model ----------------------------
(***************************************************************************)
(* The quiz session coordinator of CronApp2025/quizzgame: the WebSocket    *)
(* message handlers, POST /api/admin/connect and POST /api/quizzes of the  *)
(* server's registerRoutes, over the record store of server/storage.ts,    *)
(* and the components of the client's pages that talk to it.               *)
(*                                                                         *)
(* Every handler is an async function.  It runs without interruption up to *)
(* its next `await storage.x(...)`; there it is suspended and the handlers *)
(* of other messages, the close callback and the HTTP route may run.  A    *)
(* suspended handler is a task: its position (pc) and its local variables. *)
(* One action resolves one await: the store performs the awaited           *)
(* operation and the handler runs on to its next await or to its end.      *)
(* An await of a read of the authored store (quizzes, questions) whose     *)
(* continuation touches nothing but the handler's own locals is taken      *)
(* together with the await that follows it: no other step can tell.        *)
(***************************************************************************)
EXTENDS Integers, Sequences, FiniteSets, TLC

\* ------------------------------------------------------------ bounds
\* connections opened during a run
NumConns == 2
\* message handlers suspended on a store call at the same time
MaxTasks == 1
\* rows of the participants table
MaxParticipants == 2
\* rows of the answers table
MaxAnswers == 2
\* quizzes POST /api/quizzes creates during a run
MaxQuizzes == 2
\* clicks on the host view's Start button
MaxStarts == 2

Conns == 1..NumConns
TaskIds == 1..MaxTasks

\* ------------------------------------------------------------ the authored store
\* Admins, quizzes and questions are authored before a session runs and are
\* not changed by the coordinator: admin a owns quiz a; quiz 1 has questions
\* 1 and 2, quiz 2 has none yet; every question has options 0 and 1.
AdminIds == {1, 2}
QuizIds == {1, 2}
QuestionIds == {1, 2}
OptionIds == {0, 1}
\* an admin id, a join code and a question id that resolve to nothing
NoSuchAdmin == 3
NoSuchCode == << "X", "X", "X", "X", "X", "X" >>
NoSuchQuestion == 3
\* an option id no question has
NoSuchOption == 2

QuizAdminId(q) == q

\* quizzes.code: a code is the sequence of its characters
QuizCode(q) ==
    IF q = 1 THEN << "G", "E", "O", "1", "2", "3" >>
    ELSE << "S", "C", "I", "4", "5", "6" >>

QuestionQuizId(n) == IF n \in QuestionIds THEN 1 ELSE 0

\* question.options: exactly one option is marked correct
QuestionOptions(n) ==
    IF n = 2
    THEN << [id |-> 0, text |-> "Nile", isCorrect |-> FALSE],
            [id |-> 1, text |-> "Amazon", isCorrect |-> TRUE] >>
    ELSE << [id |-> 0, text |-> "Paris", isCorrect |-> TRUE],
            [id |-> 1, text |-> "London", isCorrect |-> FALSE] >>

\* the latencies a client reports with SUBMIT_ANSWER
ResponseTimes == {3000}

\* ------------------------------------------------------------ numbers
\* IEEE 754 binary64 arithmetic on the values the score needs (JavaScript
\* numbers are doubles).
\* A finite non-negative double is the integer whose binary digits are
\* bits (most significant first) divided by 2^scale.
MantissaBits == 53
\* long arithmetic works on digits of DigitBits bits
DigitBits == 8
DigitBase == 2 ^ DigitBits
\* binary places a quotient is developed to before it is rounded
QuotientDigits == 9

StripZeros(bits) ==
    IF \A k \in DOMAIN bits : bits[k] = 0 THEN << >>
    ELSE LET first == CHOOSE k \in DOMAIN bits :
                          bits[k] = 1 /\ \A j \in 1..(k - 1) : bits[j] = 0
         IN  SubSeq(bits, first, Len(bits))

\* bits + 1
Increment(bits) ==
    IF \A k \in DOMAIN bits : bits[k] = 1
    THEN << 1 >> \o [k \in DOMAIN bits |-> 0]
    ELSE LET last == CHOOSE k \in DOMAIN bits :
                         bits[k] = 0 /\ \A j \in (k + 1)..Len(bits) : bits[j] = 1
         IN  [k \in DOMAIN bits |->
                 IF k < last THEN bits[k] ELSE IF k = last THEN 1 ELSE 0]

\* round to nearest, ties to even, to 53 significant bits; sticky tells
\* that the exact value lies above bits / 2^scale
RoundToDouble(bits, scale, sticky) ==
    LET s == StripZeros(bits)
        L == Len(s)
    IN  IF L <= MantissaBits THEN [bits |-> s, scale |-> scale]
        ELSE LET keep == SubSeq(s, 1, MantissaBits)
                 guard == s[MantissaBits + 1]
                 rest == sticky \/ \E k \in (MantissaBits + 2)..L : s[k] = 1
                 up == guard = 1 /\ (rest \/ keep[MantissaBits] = 1)
             IN  [bits |-> IF up THEN Increment(keep) ELSE keep,
                  scale |-> scale - (L - MantissaBits)]

\* the binary digits of a sequence of digits
DigitsToBits(digits) ==
    [k \in 1..(DigitBits * Len(digits)) |->
        (digits[((k - 1) \div DigitBits) + 1]
            \div (2 ^ (DigitBits - 1 - ((k - 1) % DigitBits)))) % 2]

RECURSIVE BitsInt(_)
BitsInt(bits) ==
    IF bits = << >> THEN 0
    ELSE 2 * BitsInt(SubSeq(bits, 1, Len(bits) - 1)) + bits[Len(bits)]

\* the digits of a sequence of binary digits
BitsToDigits(bits) ==
    LET n == (Len(bits) + DigitBits - 1) \div DigitBits
        pad == n * DigitBits - Len(bits)
        padded == [k \in 1..(n * DigitBits) |-> IF k <= pad THEN 0 ELSE bits[k - pad]]
    IN  [j \in 1..n |->
            BitsInt(SubSeq(padded, DigitBits * (j - 1) + 1, DigitBits * j))]

\* the first n digits after the point of r / d, for 0 <= r < d
RECURSIVE QuotientDigitsOf(_, _, _)
QuotientDigitsOf(r, d, n) ==
    IF n = 0 THEN << >>
    ELSE << (DigitBase * r) \div d >>
         \o QuotientDigitsOf((DigitBase * r) % d, d, n - 1)

RECURSIVE Remainder(_, _, _)
Remainder(r, d, n) ==
    IF n = 0 THEN r ELSE Remainder((DigitBase * r) % d, d, n - 1)

\* a / b for integers 0 <= a < b
FloatDiv(a, b) ==
    IF a = 0 THEN [bits |-> << >>, scale |-> 0]
    ELSE RoundToDouble(DigitsToBits(QuotientDigitsOf(a, b, QuotientDigits)),
                       DigitBits * QuotientDigits,
                       Remainder(a, b, QuotientDigits) # 0)

\* 1 - f for a double 0 <= f < 1
FloatOneMinus(f) ==
    IF f.bits = << >> THEN [bits |-> << 1 >>, scale |-> 0]
    ELSE LET pad == f.scale - Len(f.bits)
             flipped == [k \in 1..f.scale |->
                            IF k <= pad THEN 1 ELSE 1 - f.bits[k - pad]]
         IN  RoundToDouble(Increment(flipped), f.scale, FALSE)

\* digits * k + carry
RECURSIVE TimesDigits(_, _, _)
TimesDigits(digits, k, carry) ==
    IF digits = << >> THEN << carry >>
    ELSE LET v == digits[Len(digits)] * k + carry
         IN  TimesDigits(SubSeq(digits, 1, Len(digits) - 1), k, v \div DigitBase)
             \o << v % DigitBase >>

\* k * f for an integer 0 < k < DigitBase
FloatTimes(k, f) ==
    RoundToDouble(DigitsToBits(TimesDigits(BitsToDigits(f.bits), k, 0)),
                  f.scale, FALSE)

\* Math.floor of a double below 2^30
FloatFloor(f) ==
    IF Len(f.bits) <= f.scale THEN 0
    ELSE BitsInt(SubSeq(f.bits, 1, Len(f.bits) - f.scale))

\* the same double without its trailing zero bits
Canonical(f) ==
    IF \A k \in DOMAIN f.bits : f.bits[k] = 0 THEN [bits |-> << >>, scale |-> 0]
    ELSE LET last == CHOOSE k \in DOMAIN f.bits :
                         f.bits[k] = 1 /\ \A j \in (k + 1)..Len(f.bits) : f.bits[j] = 0
         IN  [bits |-> SubSeq(f.bits, 1, last),
              scale |-> f.scale - (Len(f.bits) - last)]

\* ------------------------------------------------------------ state
VARIABLES
    clients,        \* the clients map and the WsClient objects, by connection id
    activeQuizzes,  \* the activeQuizzes map: quiz id -> ActiveQuiz object (0: no entry)
    objs,           \* the ActiveQuiz objects
    quizStatus,     \* quizzes.status, by quiz id
    participants,   \* the participants table, by id (a row: quizId, score)
    answers,        \* the answers table, by id
    tasks,          \* the suspended message handlers
    sent,           \* the messages the last step sent over the channels
    quizzes,        \* quizzes.code of the quizzes POST /api/quizzes created
    browser,        \* the useWebSocket hook at the other end of each channel
    hostView,       \* the QuizHostView component of the host's page
    userQuestion    \* the UserQuestion component of a participant's page

vars == << clients, activeQuizzes, objs, quizStatus, participants, answers,
           tasks, sent, quizzes, browser, hostView, userQuestion >>

\* the components of the pages
pages == << hostView, userQuestion >>

ObjIds == 1..(Cardinality(QuizIds) + MaxTasks + 1)

\* interface WsClient; ws is the channel's readyState, inMap whether the
\* clients map holds the object under its id.  bound is history: the quizzes
\* POST /api/admin/connect has accepted this connection for.
NoClient ==
    [ws |-> "none", inMap |-> FALSE, quizId |-> 0, participantId |-> 0,
     isAdmin |-> FALSE, adminId |-> 0, bound |-> {}]

\* interface ActiveQuiz (0 stands for undefined)
NoActiveQuiz ==
    [quizId |-> 0, currentQuestionId |-> 0, adminWsId |-> 0, status |-> "none"]

IdleTask ==
    [op |-> "idle", pc |-> "idle", conn |-> 0, quizCode |-> << >>, quizId |-> 0,
     participantId |-> 0, questionId |-> 0, optionId |-> 0, responseTime |-> 0,
     isCorrect |-> FALSE, score |-> 0, participantScore |-> 0, activeQuiz |-> 0,
     optionStats |-> << >>]

\* useWebSocket: connected and wsClientId (0 stands for null) are the hook's
\* state; pending is the type of the message the server sent on connect while
\* it waits at the socket for the hook's listener ("": none)
NoHook == [connected |-> FALSE, wsClientId |-> 0, pending |-> ""]

\* QuizHostView: quizState, currentQuestionIndex and currentQuestion (0
\* stands for null) are the component's state.  timeouts are the pending
\* setTimeout callbacks of startQuiz and timer is the setInterval callback of
\* timer.current: a callback is the values of the render that made it, which
\* its functions close over.  timer.question tells which question the
\* countdown runs for, and socket is what the component has sent.
NoTimer == [running |-> FALSE, currentQuestion |-> 0, question |-> 0]

NoHostView ==
    [quizState |-> "waiting", currentQuestionIndex |-> 0, currentQuestion |-> 0,
     timeouts |-> << >>, timer |-> NoTimer, socket |-> << >>]

\* UserQuestion: question (0 stands for null), selectedOption (-1 stands
\* for null) and isSubmitting are the component's state; listening tells
\* that handleAnswerResponse is a listener of the socket, and answersSent
\* counts the submit_answer messages sent since the question was set.
NoUserQuestion ==
    [question |-> 0, selectedOption |-> -1, isSubmitting |-> FALSE,
     listening |-> FALSE, answersSent |-> 0]

\* a message on the channel of connection `to`; options and leaderboard are
\* data.options and data.leaderboard of the messages that carry them
Msg(to, type, message, questionId) ==
    [to |-> to, type |-> type, message |-> message, questionId |-> questionId,
     options |-> << >>, leaderboard |-> << >>]

\* the messages msgs with their data
WithData(msgs, options, leaderboard) ==
    {[m EXCEPT !.options = options, !.leaderboard = leaderboard] : m \in msgs}

\* sendToClient: nothing is sent unless the channel is open
sendToClient(cl, c, type, message, questionId) ==
    IF cl[c].ws = "open" THEN {Msg(c, type, message, questionId)} ELSE {}

\* broadcastToQuiz: every client of the map bound to the quiz
broadcastToQuiz(cl, q, type, questionId) ==
    UNION {sendToClient(cl, c, type, "", questionId) :
              c \in {d \in Conns : cl[d].inMap /\ cl[d].quizId = q}}

\* Error sending to every connection
Error_toAll(cl, c, message) ==
    UNION {sendToClient(cl, d, "ERROR", message, 0) : d \in Conns}

Error(cl, c, message) == sendToClient(cl, c, "ERROR", message, 0)

\* activeQuizzes.get(q)
GetActiveQuiz(q) ==
    IF activeQuizzes[q] = 0 THEN NoActiveQuiz ELSE objs[activeQuizzes[q]]

Referenced(o, aqm, tk) ==
    \/ \E q \in QuizIds : aqm[q] = o
    \/ \E i \in DOMAIN tk : tk[i].op # "idle" /\ tk[i].activeQuiz = o

\* a new ActiveQuiz object: the first one nothing refers to
NewObj(aqm, tk) ==
    CHOOSE o \in ObjIds :
        /\ ~Referenced(o, aqm, tk)
        /\ \A p \in ObjIds : p < o => Referenced(p, aqm, tk)

HasTask(c, tk) == \E i \in DOMAIN tk : tk[i].op # "idle" /\ tk[i].conn = c

\* The next values of the coordinator's memory.  Objects nothing refers to
\* any more (an ActiveQuiz that left the map, the WsClient of a closed
\* connection with no handler left) are garbage and are cleared.
Commit(cl, aqm, ob, tk) ==
    /\ tasks' = tk
    /\ activeQuizzes' = aqm
    /\ objs' = [o \in ObjIds |->
                   IF Referenced(o, aqm, tk) THEN ob[o] ELSE NoActiveQuiz]
    /\ clients' = [c \in Conns |->
                   IF cl[c].ws = "closed" /\ ~cl[c].inMap /\ ~HasTask(c, tk)
                   THEN [NoClient EXCEPT !.ws = "closed"]
                   ELSE cl[c]]

FreeTask ==
    CHOOSE i \in DOMAIN tasks :
        tasks[i].op = "idle" /\ \A j \in DOMAIN tasks : j < i => tasks[j].op # "idle"

CanSpawn == \E i \in DOMAIN tasks : tasks[i].op = "idle"

\* the handler's first lines: a message event of an open channel whose
\* client is in the map
Receives(c) == clients[c].ws = "open" /\ clients[c].inMap

\* the server after registerRoutes
Init ==
    /\ clients = [c \in Conns |-> NoClient]
    /\ activeQuizzes = [q \in QuizIds |-> 0]
    /\ objs = [o \in ObjIds |-> NoActiveQuiz]
    /\ quizStatus = [q \in QuizIds |-> "draft"]
    /\ participants = << >>
    /\ answers = << >>
    /\ tasks = [i \in TaskIds |-> IdleTask]
    /\ sent = {}
    /\ quizzes = << >>
    /\ browser = [c \in Conns |-> NoHook]
    /\ hostView = NoHostView
    /\ userQuestion = NoUserQuestion

\* ------------------------------------------------------------ connections
\* wss.on('connection'): connection ids are fresh, so they are taken in order
Connection(c) ==
    /\ clients[c].ws = "none"
    /\ \A d \in Conns : d < c => clients[d].ws # "none"
    /\ LET cl == [clients EXCEPT ![c] = [NoClient EXCEPT !.ws = "open", !.inMap = TRUE]]
       IN  /\ Commit(cl, activeQuizzes, objs, tasks)
           /\ sent' = sendToClient(cl, c, "CLIENT_ID", "", 0)
    /\ browser' = [browser EXCEPT ![c].pending = "CLIENT_ID"]
    /\ UNCHANGED << quizStatus, participants, answers, quizzes, pages >>

\* OnClose ending the session its connection hosts
OnClose_endsSession(c) ==
    /\ clients[c].ws = "open"
    /\ LET client == clients[c]
           q == client.quizId
           clearsHost == /\ client.inMap /\ client.isAdmin /\ q # 0
                         /\ activeQuizzes[q] # 0
                         /\ objs[activeQuizzes[q]].adminWsId = c
           ob == IF clearsHost
                 THEN [objs EXCEPT ![activeQuizzes[q]].adminWsId = 0,
                                   ![activeQuizzes[q]].status = "ended"]
                 ELSE objs
           cl == [clients EXCEPT ![c].ws = "closed", ![c].inMap = FALSE]
       IN  Commit(cl, activeQuizzes, ob, tasks)
    /\ sent' = {}
    \* the hook's close listener: setConnected(false), setWsClientId(null)
    /\ browser' = [browser EXCEPT ![c] = NoHook]
    /\ UNCHANGED << quizStatus, participants, answers, quizzes, pages >>

\* ws.on('close')
OnClose(c) ==
    /\ clients[c].ws = "open"
    /\ LET client == clients[c]
           q == client.quizId
           clearsHost == /\ client.inMap /\ client.isAdmin /\ q # 0
                         /\ activeQuizzes[q] # 0
                         /\ objs[activeQuizzes[q]].adminWsId = c
           ob == IF clearsHost
                 THEN [objs EXCEPT ![activeQuizzes[q]].adminWsId = 0]
                 ELSE objs
           cl == [clients EXCEPT ![c].ws = "closed", ![c].inMap = FALSE]
       IN  Commit(cl, activeQuizzes, ob, tasks)
    /\ sent' = {}
    \* the hook's close listener: setConnected(false), setWsClientId(null)
    /\ browser' = [browser EXCEPT ![c] = NoHook]
    /\ UNCHANGED << quizStatus, participants, answers, quizzes, pages >>

\* POST /api/admin/connect (bindHost).  Its awaits before the update read
\* only the authored store, and the one after it only builds the response,
\* so the route is one step.
AdminConnect(adminId, quizId, wsClientId) ==
    /\ sent' = {}
    /\ UNCHANGED << quizStatus, participants, answers, quizzes, browser, pages >>
    /\ IF adminId \notin AdminIds \/ QuizAdminId(quizId) # adminId
          \/ ~clients[wsClientId].inMap
       THEN \* 404
            UNCHANGED << clients, activeQuizzes, objs, tasks >>
       ELSE LET cl == [clients EXCEPT ![wsClientId].isAdmin = TRUE,
                                      ![wsClientId].bound = @ \cup {quizId},
                                      ![wsClientId].adminId = adminId,
                                      ![wsClientId].quizId = quizId]
                o == IF activeQuizzes[quizId] = 0
                     THEN NewObj(activeQuizzes, tasks)
                     ELSE activeQuizzes[quizId]
                ob == IF activeQuizzes[quizId] = 0
                      THEN [objs EXCEPT ![o] = [NoActiveQuiz EXCEPT
                                                   !.quizId = quizId,
                                                   !.status = "waiting",
                                                   !.adminWsId = wsClientId]]
                      ELSE [objs EXCEPT ![o].adminWsId = wsClientId]
                aqm == [activeQuizzes EXCEPT ![quizId] = o]
            IN  Commit(cl, aqm, ob, tasks)

\* ------------------------------------------------------------ handlers
Spawn(t) == [tasks EXCEPT ![FreeTask] = t]

Finish(i) == [tasks EXCEPT ![i] = IdleTask]

At(i, op, pc) == tasks[i].op = op /\ tasks[i].pc = pc

\* getQuizByCode resolving an unknown code to the first quiz
getQuizByCode_firstQuiz(code) ==
    IF \E q \in QuizIds : QuizCode(q) = code
    THEN CHOOSE q \in QuizIds : QuizCode(q) = code
    ELSE 1

\* storage.getQuizByCode (0: undefined); the quizzes created during the run
\* have the ids after the authored ones
getQuizByCode(code) ==
    IF \E q \in QuizIds : QuizCode(q) = code
    THEN CHOOSE q \in QuizIds : QuizCode(q) = code
    ELSE IF \E k \in DOMAIN quizzes : quizzes[k] = code
    THEN Cardinality(QuizIds) + (CHOOSE k \in DOMAIN quizzes : quizzes[k] = code)
    ELSE 0

\* IsHost without its isAdmin test
IsHost_quizIdOnly(client) == client.quizId # 0

\* the host check of QUIZ_STARTED, NEW_QUESTION, QUESTION_ENDED, QUIZ_ENDED:
\* `!client.isAdmin || !client.quizId` is Unauthorized
IsHost(client) == client.isAdmin /\ client.quizId # 0

\* QuestionIsActive without its status test
QuestionIsActive_idOnly(activeQuiz, questionId) ==
    /\ activeQuiz.status # "none"
    /\ activeQuiz.currentQuestionId = questionId

\* the check of SUBMIT_ANSWER against the session
QuestionIsActive(activeQuiz, questionId) ==
    /\ activeQuiz.status # "none"
    /\ activeQuiz.currentQuestionId = questionId
    /\ activeQuiz.status = "question_active"

\* Math.floor(50 * (1 - (responseTime - 5000) / 5000)), in doubles, for the
\* latencies of the linear branch
LinearBonus ==
    [responseTime \in 5000..9999 |->
        FloatFloor(FloatTimes(50,
            FloatOneMinus(FloatDiv(responseTime - 5000, 5000))))]

\* Score without its linear branch
Score_noLinearBonus(isCorrect, responseTime) ==
    IF ~isCorrect THEN 0
    ELSE IF responseTime < 5000 THEN 100 + 50
    ELSE 100

\* the score of SUBMIT_ANSWER
Score(isCorrect, responseTime) ==
    IF ~isCorrect THEN 0
    ELSE IF responseTime < 5000 THEN 100 + 50
    ELSE IF responseTime < 10000 THEN 100 + LinearBonus[responseTime]
    ELSE 100

\* the client's calculateScore
calculateScore(isCorrect, responseTimeMs) ==
    IF ~isCorrect THEN 0
    ELSE IF responseTimeMs < 5000 THEN 100 + 50
    ELSE IF responseTimeMs < 10000 THEN 100 + LinearBonus[responseTimeMs]
    ELSE 100

\* options.find(opt => opt.id === optionId)?.isCorrect || false
IsCorrectOption(questionId, optionId) ==
    \E k \in DOMAIN QuestionOptions(questionId) :
        /\ QuestionOptions(questionId)[k].id = optionId
        /\ QuestionOptions(questionId)[k].isCorrect

\* sanitizedOptions passing the options on as they are stored
sanitizedOptions_asStored(questionOptions) == questionOptions

\* questionOptions.map(opt => ({ id: opt.id, text: opt.text }))
sanitizedOptions(questionOptions) ==
    [k \in DOMAIN questionOptions |->
        [id |-> questionOptions[k].id, text |-> questionOptions[k].text]]

\* storage.getAnswersByQuestion: the rows of the question
getAnswersByQuestion(questionId) ==
    {k \in DOMAIN answers : answers[k].questionId = questionId}

\* (optionAnswers.length / answers.length) * 100, in doubles; 0 without answers
percentage(count, total) ==
    IF total = 0 THEN [bits |-> << >>, scale |-> 0]
    ELSE Canonical(FloatTimes(100, IF count = total
                                   THEN [bits |-> << 1 >>, scale |-> 0]
                                   ELSE FloatDiv(count, total)))

\* the statistics QUESTION_ENDED computes of the answers of the question
optionStats(questionId) ==
    LET rows == getAnswersByQuestion(questionId)
        options == QuestionOptions(questionId)
    IN  [j \in DOMAIN options |->
            LET optionAnswers ==
                    {k \in rows : answers[k].selectedOption = options[j].id}
            IN  [optionId |-> options[j].id,
                 text |-> options[j].text,
                 isCorrect |-> options[j].isCorrect,
                 percentage |-> percentage(Cardinality(optionAnswers),
                                           Cardinality(rows)),
                 count |-> Cardinality(optionAnswers)]]

\* storage.getParticipantsByQuiz: the ids of the rows of the quiz
getParticipantsByQuiz(q) ==
    {p \in DOMAIN participants : participants[p].quizId = q}

\* storage.getLeaderboard (DatabaseStorage): the rows of the quiz ORDER BY
\* score DESC.  The query names no second key, so the database returns rows
\* of equal score in the order it finds them: every such order is a result.
getLeaderboard(q) ==
    LET rows == getParticipantsByQuiz(q)
        orders == {l \in [1..Cardinality(rows) -> rows] :
                      /\ \A j, k \in DOMAIN l : l[j] = l[k] => j = k
                      /\ \A j, k \in DOMAIN l :
                            j < k => participants[l[j]].score
                                        >= participants[l[k]].score}
    IN  {[k \in DOMAIN l |-> [id |-> l[k], score |-> participants[l[k]].score]] :
            l \in orders}

\* leaderboard.slice(0, 5)
Top5(leaderboard) ==
    SubSeq(leaderboard, 1, IF Len(leaderboard) < 5 THEN Len(leaderboard) ELSE 5)

InFlight(op, pcs) ==
    Cardinality({i \in DOMAIN tasks : tasks[i].op = op /\ tasks[i].pc \in pcs})

\* ---- case WSEventType.JOIN_QUIZ
OnJoinQuiz(c, quizCode) ==
    /\ Receives(c)
    /\ CanSpawn
    /\ Len(participants) + InFlight("JOIN_QUIZ", {"createParticipant"})
          < MaxParticipants
    /\ Commit(clients, activeQuizzes, objs,
              Spawn([IdleTask EXCEPT !.op = "JOIN_QUIZ",
                                     !.pc = IF getQuizByCode(quizCode) = 0
                                            THEN "getQuizByCode"
                                            ELSE "createParticipant",
                                     !.conn = c, !.quizCode = quizCode,
                                     !.quizId = getQuizByCode(quizCode)]))
    /\ sent' = {}
    /\ UNCHANGED << quizStatus, participants, answers, quizzes, browser, pages >>

\* getQuizByCode found no quiz
JoinQuiz_getQuizByCode(i) ==
    /\ At(i, "JOIN_QUIZ", "getQuizByCode")
    /\ sent' = Error(clients, tasks[i].conn, "Quiz not found")
    /\ Commit(clients, activeQuizzes, objs, Finish(i))
    /\ UNCHANGED << quizStatus, participants, answers, quizzes, browser, pages >>

JoinQuiz_createParticipant(i) ==
    /\ At(i, "JOIN_QUIZ", "createParticipant")
    /\ LET t == tasks[i]
           q == t.quizId
           id == Len(participants) + 1
           \* client.quizId, client.participantId, clients.set(clientId, client)
           cl == [clients EXCEPT ![t.conn].quizId = q,
                                 ![t.conn].participantId = id,
                                 ![t.conn].inMap = TRUE]
           tk == Finish(i)
           o == IF activeQuizzes[q] = 0 THEN NewObj(activeQuizzes, tk)
                ELSE activeQuizzes[q]
           ob == IF activeQuizzes[q] = 0
                 THEN [objs EXCEPT ![o] = [NoActiveQuiz EXCEPT !.quizId = q,
                                                               !.status = "waiting"]]
                 ELSE objs
           admin == ob[o].adminWsId
       IN  /\ participants' = Append(participants, [quizId |-> q, score |-> 0])
           /\ Commit(cl, [activeQuizzes EXCEPT ![q] = o], ob, tk)
           /\ sent' = sendToClient(cl, t.conn, "JOIN_QUIZ", "", 0)
                      \cup (IF admin # 0 /\ cl[admin].inMap
                            THEN sendToClient(cl, admin, "PLAYER_JOINED", "", 0)
                            ELSE {})
    /\ UNCHANGED << quizStatus, answers, quizzes, browser, pages >>

\* ---- case WSEventType.QUIZ_STARTED
OnQuizStarted(c) ==
    /\ Receives(c)
    /\ IF ~IsHost(clients[c])
       THEN /\ sent' = Error(clients, c, "Unauthorized")
            /\ UNCHANGED << clients, activeQuizzes, objs, tasks >>
       ELSE /\ CanSpawn
            /\ sent' = {}
            /\ Commit(clients, activeQuizzes, objs,
                      Spawn([IdleTask EXCEPT !.op = "QUIZ_STARTED", !.pc = "updateQuiz",
                                             !.conn = c,
                                             !.quizId = clients[c].quizId]))
    /\ UNCHANGED << quizStatus, participants, answers, quizzes, browser, pages >>

QuizStarted_updateQuiz(i) ==
    /\ At(i, "QUIZ_STARTED", "updateQuiz")
    /\ LET t == tasks[i]
           q == t.quizId
           tk == Finish(i)
           o == NewObj([activeQuizzes EXCEPT ![q] = 0], tk)
           ob == [objs EXCEPT ![o] = [NoActiveQuiz EXCEPT !.quizId = q,
                                                         !.adminWsId = t.conn,
                                                         !.status = "waiting"]]
       IN  /\ quizStatus' = [quizStatus EXCEPT ![q] = "active"]
           /\ Commit(clients, [activeQuizzes EXCEPT ![q] = o], ob, tk)
           /\ sent' = broadcastToQuiz(clients, q, "QUIZ_STARTED", 0)
    /\ UNCHANGED << participants, answers, quizzes, browser, pages >>

\* ---- case WSEventType.NEW_QUESTION
OnNewQuestion(c, questionId) ==
    /\ Receives(c)
    /\ IF ~IsHost(clients[c])
       THEN /\ sent' = Error(clients, c, "Unauthorized")
            /\ UNCHANGED << clients, activeQuizzes, objs, tasks >>
       ELSE /\ CanSpawn
            /\ sent' = {}
            /\ Commit(clients, activeQuizzes, objs,
                      Spawn([IdleTask EXCEPT !.op = "NEW_QUESTION", !.pc = "getQuestion",
                                             !.conn = c,
                                             !.quizId = clients[c].quizId,
                                             !.questionId = questionId]))
    /\ UNCHANGED << quizStatus, participants, answers, quizzes, browser, pages >>

\* NewQuestion_getQuestion accepting a question of any quiz
NewQuestion_getQuestion_anyQuiz(i) ==
    /\ At(i, "NEW_QUESTION", "getQuestion")
    /\ LET t == tasks[i]
           q == t.quizId
       IN  IF QuestionQuizId(t.questionId) = 0
           THEN /\ sent' = Error(clients, t.conn, "Question not found")
                /\ Commit(clients, activeQuizzes, objs, Finish(i))
           ELSE LET o == IF activeQuizzes[q] = 0 THEN NewObj(activeQuizzes, tasks)
                         ELSE activeQuizzes[q]
                    old == IF activeQuizzes[q] = 0
                           THEN [NoActiveQuiz EXCEPT !.quizId = q,
                                                     !.adminWsId = t.conn,
                                                     !.status = "waiting"]
                           ELSE objs[o]
                    ob == [objs EXCEPT ![o] = [old EXCEPT
                                                  !.currentQuestionId = t.questionId,
                                                  !.status = "question_active"]]
                IN  /\ sent' = {}
                    /\ Commit(clients, [activeQuizzes EXCEPT ![q] = o], ob,
                              [tasks EXCEPT ![i].pc = "getQuiz"])
    /\ UNCHANGED << quizStatus, participants, answers, quizzes, browser, pages >>

NewQuestion_getQuestion(i) ==
    /\ At(i, "NEW_QUESTION", "getQuestion")
    /\ LET t == tasks[i]
           q == t.quizId
       IN  IF QuestionQuizId(t.questionId) # q
           THEN /\ sent' = Error(clients, t.conn, "Question not found")
                /\ Commit(clients, activeQuizzes, objs, Finish(i))
           ELSE LET o == IF activeQuizzes[q] = 0 THEN NewObj(activeQuizzes, tasks)
                         ELSE activeQuizzes[q]
                    old == IF activeQuizzes[q] = 0
                           THEN [NoActiveQuiz EXCEPT !.quizId = q,
                                                     !.adminWsId = t.conn,
                                                     !.status = "waiting"]
                           ELSE objs[o]
                    ob == [objs EXCEPT ![o] = [old EXCEPT
                                                  !.currentQuestionId = t.questionId,
                                                  !.status = "question_active"]]
                IN  /\ sent' = {}
                    /\ Commit(clients, [activeQuizzes EXCEPT ![q] = o], ob,
                              [tasks EXCEPT ![i].pc = "getQuiz"])
    /\ UNCHANGED << quizStatus, participants, answers, quizzes, browser, pages >>

NewQuestion_getQuiz(i) ==
    /\ At(i, "NEW_QUESTION", "getQuiz")
    /\ sent' = WithData(broadcastToQuiz(clients, tasks[i].quizId, "NEW_QUESTION",
                                        tasks[i].questionId),
                        sanitizedOptions(QuestionOptions(tasks[i].questionId)),
                        << >>)
    /\ Commit(clients, activeQuizzes, objs, Finish(i))
    /\ UNCHANGED << quizStatus, participants, answers, quizzes, browser, pages >>

\* ---- case WSEventType.SUBMIT_ANSWER
OnSubmitAnswer(c, questionId, optionId, responseTime) ==
    /\ Receives(c)
    /\ LET client == clients[c]
       IN  IF client.participantId = 0 \/ client.quizId = 0
           THEN /\ sent' = Error(clients, c, "Not in a quiz")
                /\ UNCHANGED << clients, activeQuizzes, objs, tasks >>
           ELSE IF ~QuestionIsActive(GetActiveQuiz(client.quizId), questionId)
           THEN /\ sent' = Error(clients, c, "Question is not active")
                /\ UNCHANGED << clients, activeQuizzes, objs, tasks >>
           ELSE /\ CanSpawn
                /\ Len(answers) + InFlight("SUBMIT_ANSWER", {"insert"})
                      < MaxAnswers
                /\ sent' = {}
                /\ Commit(clients, activeQuizzes, objs,
                          Spawn([IdleTask EXCEPT
                                    !.op = "SUBMIT_ANSWER", !.pc = "insert",
                                    !.conn = c, !.quizId = client.quizId,
                                    !.participantId = client.participantId,
                                    !.questionId = questionId,
                                    !.optionId = optionId,
                                    !.responseTime = responseTime,
                                    !.isCorrect =
                                        IsCorrectOption(questionId, optionId),
                                    !.score =
                                        Score(IsCorrectOption(questionId, optionId),
                                              responseTime),
                                    !.activeQuiz = activeQuizzes[client.quizId]]))
    /\ UNCHANGED << quizStatus, participants, answers, quizzes, browser, pages >>

\* storage.createAnswer: the insert, ...
CreateAnswer_insert(i) ==
    /\ At(i, "SUBMIT_ANSWER", "insert")
    /\ LET t == tasks[i]
       IN  answers' = Append(answers,
                             [participantId |-> t.participantId,
                              questionId |-> t.questionId,
                              selectedOption |-> t.optionId,
                              isCorrect |-> t.isCorrect,
                              responseTime |-> t.responseTime,
                              score |-> t.score])
    /\ Commit(clients, activeQuizzes, objs, [tasks EXCEPT ![i].pc = "getParticipant"])
    /\ sent' = {}
    /\ UNCHANGED << quizStatus, participants, quizzes, browser, pages >>

\* ... the read of the participant, ...
CreateAnswer_getParticipant(i) ==
    /\ At(i, "SUBMIT_ANSWER", "getParticipant")
    /\ Commit(clients, activeQuizzes, objs,
              [tasks EXCEPT ![i].pc = "updateParticipant",
                            ![i].participantScore =
                                participants[tasks[i].participantId].score])
    /\ sent' = {}
    /\ UNCHANGED << quizStatus, participants, answers, quizzes, browser, pages >>

\* CreateAnswer_updateParticipant writing the score to every row
CreateAnswer_updateParticipant_everyRow(i) ==
    /\ At(i, "SUBMIT_ANSWER", "updateParticipant")
    /\ LET t == tasks[i]
       IN  /\ participants' = [p \in DOMAIN participants |->
                                  [participants[p] EXCEPT !.score =
                                      t.participantScore + t.score]]
           /\ sent' = sendToClient(clients, t.conn, "SUBMIT_ANSWER", "", t.questionId)
    /\ Commit(clients, activeQuizzes, objs, [tasks EXCEPT ![i].pc = "getLeaderboard"])
    /\ UNCHANGED << quizStatus, answers, quizzes, browser, pages >>

\* ... and the write of its score; then the ack to the sender
CreateAnswer_updateParticipant(i) ==
    /\ At(i, "SUBMIT_ANSWER", "updateParticipant")
    /\ LET t == tasks[i]
       IN  /\ participants' = [participants EXCEPT ![t.participantId].score =
                                  t.participantScore + t.score]
           /\ sent' = sendToClient(clients, t.conn, "SUBMIT_ANSWER", "", t.questionId)
    /\ Commit(clients, activeQuizzes, objs, [tasks EXCEPT ![i].pc = "getLeaderboard"])
    /\ UNCHANGED << quizStatus, answers, quizzes, browser, pages >>

SubmitAnswer_getLeaderboard(i) ==
    /\ At(i, "SUBMIT_ANSWER", "getLeaderboard")
    /\ \E leaderboard \in getLeaderboard(tasks[i].quizId) :
          LET admin == objs[tasks[i].activeQuiz].adminWsId
          IN  sent' = IF admin # 0 /\ clients[admin].inMap
                      THEN WithData(sendToClient(clients, admin,
                                                 "LEADERBOARD_UPDATE", "", 0),
                                    << >>, leaderboard)
                      ELSE {}
    /\ Commit(clients, activeQuizzes, objs, Finish(i))
    /\ UNCHANGED << quizStatus, participants, answers, quizzes, browser, pages >>

\* ---- case WSEventType.QUESTION_ENDED
OnQuestionEnded(c) ==
    /\ Receives(c)
    /\ IF ~IsHost(clients[c])
       THEN /\ sent' = Error(clients, c, "Unauthorized")
            /\ UNCHANGED << clients, activeQuizzes, objs, tasks >>
       ELSE LET q == clients[c].quizId
                activeQuiz == GetActiveQuiz(q)
            IN  IF activeQuiz.status = "none" \/ activeQuiz.currentQuestionId = 0
                THEN /\ sent' = Error(clients, c, "No active question")
                     /\ UNCHANGED << clients, activeQuizzes, objs, tasks >>
                ELSE /\ CanSpawn
                     /\ sent' = {}
                     /\ Commit(clients, activeQuizzes, objs,
                               Spawn([IdleTask EXCEPT
                                         !.op = "QUESTION_ENDED", !.pc = "getQuestion",
                                         !.conn = c, !.quizId = q,
                                         !.questionId = activeQuiz.currentQuestionId,
                                         !.activeQuiz = activeQuizzes[q]]))
    /\ UNCHANGED << quizStatus, participants, answers, quizzes, browser, pages >>

QuestionEnded_getQuestion(i) ==
    /\ At(i, "QUESTION_ENDED", "getQuestion")
    /\ LET t == tasks[i]
           \* activeQuiz.status = ...; activeQuizzes.set(quizId, activeQuiz)
           ob == [objs EXCEPT ![t.activeQuiz].status = "question_ended"]
       IN  Commit(clients, [activeQuizzes EXCEPT ![t.quizId] = t.activeQuiz], ob,
                  [tasks EXCEPT ![i].pc = "getAnswersByQuestion"])
    /\ sent' = {}
    /\ UNCHANGED << quizStatus, participants, answers, quizzes, browser, pages >>

QuestionEnded_getAnswersByQuestion(i) ==
    /\ At(i, "QUESTION_ENDED", "getAnswersByQuestion")
    /\ Commit(clients, activeQuizzes, objs,
              [tasks EXCEPT ![i].pc = "getLeaderboard",
                            ![i].optionStats = optionStats(tasks[i].questionId)])
    /\ sent' = {}
    /\ UNCHANGED << quizStatus, participants, answers, quizzes, browser, pages >>

QuestionEnded_getLeaderboard(i) ==
    /\ At(i, "QUESTION_ENDED", "getLeaderboard")
    /\ \E leaderboard \in getLeaderboard(tasks[i].quizId) :
          sent' = WithData(broadcastToQuiz(clients, tasks[i].quizId,
                                           "QUESTION_ENDED", tasks[i].questionId),
                           tasks[i].optionStats, Top5(leaderboard))
    /\ Commit(clients, activeQuizzes, objs, Finish(i))
    /\ UNCHANGED << quizStatus, participants, answers, quizzes, browser, pages >>

\* ---- case WSEventType.QUIZ_ENDED
OnQuizEnded(c) ==
    /\ Receives(c)
    /\ IF ~IsHost(clients[c])
       THEN /\ sent' = Error(clients, c, "Unauthorized")
            /\ UNCHANGED << clients, activeQuizzes, objs, tasks >>
       ELSE /\ CanSpawn
            /\ sent' = {}
            /\ Commit(clients, activeQuizzes, objs,
                      Spawn([IdleTask EXCEPT !.op = "QUIZ_ENDED", !.pc = "updateQuiz",
                                             !.conn = c,
                                             !.quizId = clients[c].quizId]))
    /\ UNCHANGED << quizStatus, participants, answers, quizzes, browser, pages >>

QuizEnded_updateQuiz(i) ==
    /\ At(i, "QUIZ_ENDED", "updateQuiz")
    /\ LET q == tasks[i].quizId
           ob == IF activeQuizzes[q] = 0 THEN objs
                 ELSE [objs EXCEPT ![activeQuizzes[q]].status = "ended"]
       IN  /\ quizStatus' = [quizStatus EXCEPT ![q] = "completed"]
           /\ Commit(clients, activeQuizzes, ob, [tasks EXCEPT ![i].pc = "getLeaderboard"])
    /\ sent' = {}
    /\ UNCHANGED << participants, answers, quizzes, browser, pages >>

QuizEnded_getLeaderboard(i) ==
    /\ At(i, "QUIZ_ENDED", "getLeaderboard")
    /\ \E leaderboard \in getLeaderboard(tasks[i].quizId) :
          sent' = WithData(broadcastToQuiz(clients, tasks[i].quizId, "QUIZ_ENDED", 0),
                           << >>, leaderboard)
    /\ Commit(clients, activeQuizzes, objs, Finish(i))
    /\ UNCHANGED << quizStatus, participants, answers, quizzes, browser, pages >>

\* ---- messages the switch has no case for
\* IsTestingMessage taking every type for a testing message
IsTestingMessage_any(eventType) == TRUE

\* the special testing messages answered before the switch
IsTestingMessage(eventType) == eventType \in {"GET_CLIENT_ID", "PING"}

\* what a client may send besides the six messages of the switch; the last
\* stands for a body JSON.parse rejects
OtherTypes == {"GET_CLIENT_ID", "PING", "UNKNOWN", "unparseable"}

\* GET_CLIENT_ID is answered CLIENT_ID and PING is answered PONG; any other
\* type reaches the default case, and a parse error the catch: both only log
OnOtherMessage(c, eventType) ==
    /\ Receives(c)
    /\ sent' = IF eventType # "unparseable" /\ IsTestingMessage(eventType)
               THEN sendToClient(clients, c,
                                 IF eventType = "GET_CLIENT_ID" THEN "CLIENT_ID"
                                 ELSE "PONG", "", 0)
               ELSE {}
    /\ UNCHANGED << clients, activeQuizzes, objs, tasks, quizStatus,
                    participants, answers, quizzes, browser, pages >>

\* ---- POST /api/quizzes and storage.generateQuizCode
\* the alphabet of the codes
characters ==
    << "A", "B", "C", "D", "E", "F", "G", "H", "J", "K", "L", "M", "N", "P", "Q",
       "R", "S", "T", "U", "V", "W", "X", "Y", "Z", "2", "3", "4", "5", "6", "7",
       "8", "9" >>

\* for (let i = 0; i < 6; i++)
CodeLength == 6

\* the values Math.floor(Math.random() * characters.length) takes in a run:
\* the first and the last index
RandomIndexes == {0, Len(characters) - 1}

Draws == [1..CodeLength -> RandomIndexes]

\* code += characters.charAt(randomIndex), for every draw
CodeOf(draws) == [k \in 1..CodeLength |-> characters[draws[k] + 1]]

\* the route up to the lookup generateQuizCode awaits: the code is drawn
PostQuiz ==
    /\ CanSpawn
    /\ Len(quizzes) + InFlight("POST_QUIZ", {"getQuizByCode", "createQuiz"})
          < MaxQuizzes
    /\ \E draws \in Draws :
          Commit(clients, activeQuizzes, objs,
                 Spawn([IdleTask EXCEPT !.op = "POST_QUIZ", !.pc = "getQuizByCode",
                                        !.quizCode = CodeOf(draws)]))
    /\ sent' = {}
    /\ UNCHANGED << quizStatus, participants, answers, quizzes, browser, pages >>

\* generateQuizCode returning the code it drew without the lookup
generateQuizCode_getQuizByCode_noRetry(i) ==
    /\ At(i, "POST_QUIZ", "getQuizByCode")
    /\ Commit(clients, activeQuizzes, objs, [tasks EXCEPT ![i].pc = "createQuiz"])
    /\ sent' = {}
    /\ UNCHANGED << quizStatus, participants, answers, quizzes, browser, pages >>

\* generateQuizCode after its lookup: a code some quiz has is drawn again
\* (return this.generateQuizCode(), up to its lookup); any other is returned
\* and the route goes on to createQuiz
generateQuizCode_getQuizByCode(i) ==
    /\ At(i, "POST_QUIZ", "getQuizByCode")
    /\ IF getQuizByCode(tasks[i].quizCode) # 0
       THEN \E draws \in Draws :
               Commit(clients, activeQuizzes, objs,
                      [tasks EXCEPT ![i].quizCode = CodeOf(draws)])
       ELSE Commit(clients, activeQuizzes, objs,
                   [tasks EXCEPT ![i].pc = "createQuiz"])
    /\ sent' = {}
    /\ UNCHANGED << quizStatus, participants, answers, quizzes, browser, pages >>

\* PostQuiz_createQuiz over a table whose code column is not unique
PostQuiz_createQuiz_notUnique(i) ==
    /\ At(i, "POST_QUIZ", "createQuiz")
    /\ quizzes' = Append(quizzes, tasks[i].quizCode)
    /\ Commit(clients, activeQuizzes, objs, Finish(i))
    /\ sent' = {}
    /\ UNCHANGED << quizStatus, participants, answers, browser, pages >>

\* storage.createQuiz: the insert; quizzes.code is unique, so the insert of
\* a code some quiz has is rejected (the route answers 400)
PostQuiz_createQuiz(i) ==
    /\ At(i, "POST_QUIZ", "createQuiz")
    /\ quizzes' = IF getQuizByCode(tasks[i].quizCode) # 0 THEN quizzes
                  ELSE Append(quizzes, tasks[i].quizCode)
    /\ Commit(clients, activeQuizzes, objs, Finish(i))
    /\ sent' = {}
    /\ UNCHANGED << quizStatus, participants, answers, browser, pages >>

\* ---- the clients of the repository
\* useWebSocket: the open listener, setConnected(true); it adds the listener
\* of the first message
useWebSocket_open(c) ==
    /\ clients[c].ws = "open"
    /\ ~browser[c].connected
    /\ browser' = [browser EXCEPT ![c].connected = TRUE]
    /\ sent' = {}
    /\ UNCHANGED << clients, activeQuizzes, objs, tasks, quizStatus,
                    participants, answers, quizzes, pages >>

\* useWebSocket: handleFirstMessage, on the message the server sent on connect
handleFirstMessage(c) ==
    /\ browser[c].connected
    /\ browser[c].pending # ""
    /\ browser' = [browser EXCEPT
                      ![c].pending = "",
                      ![c].wsClientId = IF browser[c].pending = "client_id"
                                        THEN c ELSE @]
    /\ sent' = {}
    /\ UNCHANGED << clients, activeQuizzes, objs, tasks, quizStatus,
                    participants, answers, quizzes, pages >>

\* QuizHostView: the connectAdmin effect, `if (connected && wsClientId)`
connectAdmin(c, adminId, quizId) ==
    /\ browser[c].connected
    /\ browser[c].wsClientId # 0
    /\ AdminConnect(adminId, quizId, browser[c].wsClientId)

\* the types of the messages QuizHostView sends: startQuiz, sendNextQuestion,
\* endQuestion, endQuiz
HostViewTypes == {"quiz_started", "new_question", "question_ended", "quiz_ended"}

\* the cases of the switch of ws.on('message')
DispatcherTypes ==
    {"JOIN_QUIZ", "QUIZ_STARTED", "NEW_QUESTION", "SUBMIT_ANSWER",
     "QUESTION_ENDED", "QUIZ_ENDED"}

\* QuizHostView sends a message of one of its types and the server's switch
\* takes the case of that type, or the default
HostViewSends(c, eventType) ==
    /\ browser[c].connected
    /\ IF eventType = "QUIZ_STARTED" THEN OnQuizStarted(c)
       ELSE IF eventType = "NEW_QUESTION"
       THEN \E n \in QuestionIds : OnNewQuestion(c, n)
       ELSE IF eventType = "QUESTION_ENDED" THEN OnQuestionEnded(c)
       ELSE IF eventType = "QUIZ_ENDED" THEN OnQuizEnded(c)
       ELSE OnOtherMessage(c, eventType)

\* the join form: JOIN_QUIZ with the code typed
handleJoin(c, quizCode) ==
    /\ browser[c].connected
    /\ OnJoinQuiz(c, quizCode)

\* ---- QuizHostView
\* questionsData.questions: the ids of the questions of the quiz hosted
questionsData == << 1, 2 >>

\* what the functions of the render of the host view v close over
Render(v) ==
    [currentQuestionIndex |-> v.currentQuestionIndex,
     currentQuestion |-> v.currentQuestion]

HostSend(v, type, questionId) ==
    [v EXCEPT !.socket = Append(@, [type |-> type, questionId |-> questionId])]

endQuiz(v) == [HostSend(v, "QUIZ_ENDED", 0) EXCEPT !.quizState = "ended"]

\* sendNextQuestion of the render `render`; the interval it starts calls the
\* endQuestion of the same render
sendNextQuestion(v, render) ==
    IF render.currentQuestionIndex >= Len(questionsData) THEN endQuiz(v)
    ELSE LET question == questionsData[render.currentQuestionIndex + 1]
         IN  [HostSend(v, "NEW_QUESTION", question) EXCEPT
                 !.currentQuestion = question,
                 !.quizState = "question_active",
                 !.timer = [running |-> TRUE,
                            currentQuestion |-> render.currentQuestion,
                            question |-> question]]

\* endQuestion of the render `render`
endQuestion(v, render) ==
    IF render.currentQuestion = 0 THEN v
    ELSE [HostSend([v EXCEPT !.timer = NoTimer], "QUESTION_ENDED",
                   render.currentQuestion)
             EXCEPT !.quizState = "question_ended"]

\* a click on Start, which is rendered while quizState is waiting
startQuiz ==
    /\ hostView.quizState = "waiting"
    /\ Len(hostView.timeouts) < MaxStarts
    /\ hostView' = [HostSend(hostView, "QUIZ_STARTED", 0) EXCEPT
                       !.timeouts = Append(@, Render(hostView))]
    /\ sent' = {}
    /\ UNCHANGED << clients, activeQuizzes, objs, tasks, quizStatus,
                    participants, answers, quizzes, browser, userQuestion >>

\* the callback of startQuiz's setTimeout, 3000 ms after the click
startQuiz_timeout ==
    /\ hostView.timeouts # << >>
    /\ hostView' = sendNextQuestion([hostView EXCEPT !.timeouts = Tail(@)],
                                    Head(hostView.timeouts))
    /\ sent' = {}
    /\ UNCHANGED << clients, activeQuizzes, objs, tasks, quizStatus,
                    participants, answers, quizzes, browser, userQuestion >>

\* the callback of the interval when the countdown reaches zero:
\* clearInterval(timer.current!) and endQuestion()
timer_timesUp ==
    /\ hostView.timer.running
    /\ hostView' = endQuestion([hostView EXCEPT !.timer = NoTimer],
                               [currentQuestion |-> hostView.timer.currentQuestion])
    /\ sent' = {}
    /\ UNCHANGED << clients, activeQuizzes, objs, tasks, quizStatus,
                    participants, answers, quizzes, browser, userQuestion >>

\* a click on Next Question, which is rendered while quizState is
\* question_ended and currentQuestion is set
goToNextQuestion ==
    /\ hostView.quizState = "question_ended"
    /\ hostView.currentQuestion # 0
    /\ hostView' = [sendNextQuestion(hostView, Render(hostView)) EXCEPT
                       !.currentQuestionIndex = hostView.currentQuestionIndex + 1]
    /\ sent' = {}
    /\ UNCHANGED << clients, activeQuizzes, objs, tasks, quizStatus,
                    participants, answers, quizzes, browser, userQuestion >>

\* ---- UserQuestion
\* Answered taking isSubmitting alone for the guard
Answered_isSubmittingOnly(u) == u.isSubmitting

\* `selectedOption !== null || isSubmitting`: the option buttons are
\* disabled, and handleSelectAnswer returns at once
Answered(u) == u.selectedOption # -1 \/ u.isSubmitting

\* the types of the messages that arrive at the component's socket
UserMessageTypes == {"new_question", "NEW_QUESTION"}

\* handleMessage: a message of the socket
handleMessage(type, questionId) ==
    /\ userQuestion' = IF type = "new_question"
                       THEN [userQuestion EXCEPT !.selectedOption = -1,
                                                 !.isSubmitting = FALSE,
                                                 !.question = questionId,
                                                 !.answersSent = 0]
                       ELSE userQuestion
    /\ sent' = {}
    /\ UNCHANGED << clients, activeQuizzes, objs, tasks, quizStatus,
                    participants, answers, quizzes, browser, hostView >>

\* handleSelectAnswer: a press of an option button, which is rendered while
\* question is set
handleSelectAnswer(optionId) ==
    /\ userQuestion.question # 0
    /\ userQuestion' = IF Answered(userQuestion) THEN userQuestion
                       ELSE [userQuestion EXCEPT !.selectedOption = optionId,
                                                 !.isSubmitting = TRUE,
                                                 !.answersSent = @ + 1,
                                                 !.listening = TRUE]
    /\ sent' = {}
    /\ UNCHANGED << clients, activeQuizzes, objs, tasks, quizStatus,
                    participants, answers, quizzes, browser, hostView >>

\* the messages handleAnswerResponse tells apart: the server's answer, any
\* other message, and one JSON.parse rejects
ResponseKinds == {"submit_answer", "other", "unparseable"}

\* handleAnswerResponse: on the answer it calls onAnswerSubmitted, whose page
\* shows the answer view in place of the component (its state is lost); on
\* a parse error it does setIsSubmitting(false); either way it stops listening
handleAnswerResponse(kind) ==
    /\ userQuestion.listening
    /\ userQuestion' = IF kind = "submit_answer" THEN NoUserQuestion
                       ELSE IF kind = "unparseable"
                       THEN [userQuestion EXCEPT !.isSubmitting = FALSE,
                                                 !.listening = FALSE]
                       ELSE userQuestion
    /\ sent' = {}
    /\ UNCHANGED << clients, activeQuizzes, objs, tasks, quizStatus,
                    participants, answers, quizzes, browser, hostView >>

\* ---- catch (error)
\* The store call a handler awaits rejects: the call has no effect, the
\* handler's catch logs the error and the handler ends.
StoreFails(i) ==
    /\ tasks[i].op # "idle"
    /\ sent' = {}
    /\ Commit(clients, activeQuizzes, objs, Finish(i))
    /\ UNCHANGED << quizStatus, participants, answers, quizzes, browser, pages >>

\* ------------------------------------------------------------ the system
\* the continuation of a suspended handler of a host message or a join
Resume(i) ==
    \/ JoinQuiz_getQuizByCode(i)
    \/ JoinQuiz_createParticipant(i)
    \/ QuizStarted_updateQuiz(i)
    \/ NewQuestion_getQuestion(i)
    \/ NewQuestion_getQuiz(i)
    \/ QuestionEnded_getQuestion(i)
    \/ QuestionEnded_getAnswersByQuestion(i)
    \/ QuestionEnded_getLeaderboard(i)
    \/ QuizEnded_updateQuiz(i)
    \/ QuizEnded_getLeaderboard(i)

\* the continuation of a suspended SUBMIT_ANSWER handler
ResumeAnswer(i) ==
    \/ CreateAnswer_insert(i)
    \/ CreateAnswer_getParticipant(i)
    \/ CreateAnswer_updateParticipant(i)
    \/ SubmitAnswer_getLeaderboard(i)

\* a host message of connection c
HostMessage(c) ==
    \/ OnQuizStarted(c)
    \/ \E n \in QuestionIds \cup {NoSuchQuestion} : OnNewQuestion(c, n)
    \/ OnQuestionEnded(c)
    \/ OnQuizEnded(c)

AnswerMessage(c) ==
    \E n \in QuestionIds, o \in OptionIds, rt \in ResponseTimes :
        OnSubmitAnswer(c, n, o, rt)

\* The whole system: any connection may be bound as host of any quiz, join
\* any quiz and send any message at any time.
Next ==
    \/ \E c \in Conns : Connection(c) \/ OnClose(c)
    \/ \E a \in AdminIds \cup {NoSuchAdmin}, q \in QuizIds, c \in Conns :
          AdminConnect(a, q, c)
    \/ \E c \in Conns, code \in {QuizCode(q) : q \in QuizIds} \cup {NoSuchCode} :
          OnJoinQuiz(c, code)
    \/ \E c \in Conns : HostMessage(c) \/ AnswerMessage(c)
    \/ \E c \in Conns, e \in OtherTypes : OnOtherMessage(c, e)
    \/ \E i \in TaskIds : Resume(i) \/ ResumeAnswer(i) \/ StoreFails(i)
    \/ PostQuiz
    \/ \E i \in TaskIds : generateQuizCode_getQuizByCode(i) \/ PostQuiz_createQuiz(i)
    \/ \E c \in Conns : useWebSocket_open(c) \/ handleFirstMessage(c)
    \/ \E c \in Conns, a \in AdminIds, q \in QuizIds : connectAdmin(c, a, q)
    \/ \E c \in Conns, e \in HostViewTypes : HostViewSends(c, e)
    \/ startQuiz \/ startQuiz_timeout \/ timer_timesUp \/ goToNextQuestion
    \/ \E type \in UserMessageTypes, n \in QuestionIds : handleMessage(type, n)
    \/ \E o \in OptionIds : handleSelectAnswer(o)
    \/ \E kind \in ResponseKinds : handleAnswerResponse(kind)

Spec == Init /\ [][Next]_vars

\* The session protocol of one quiz: any connection may be bound as host of
\* quiz 1, join it and send any host message; no SUBMIT_ANSWER is sent.
NextSession ==
    \/ \E c \in Conns : Connection(c) \/ OnClose(c)
    \/ \E a \in AdminIds \cup {NoSuchAdmin}, c \in Conns : AdminConnect(a, 1, c)
    \/ \E c \in Conns, code \in {QuizCode(1), NoSuchCode} : OnJoinQuiz(c, code)
    \/ \E c \in Conns : HostMessage(c)
    \/ \E c \in Conns, e \in OtherTypes : OnOtherMessage(c, e)
    \/ \E i \in TaskIds : Resume(i)

SpecSession == Init /\ [][NextSession]_vars

\* Two quizzes and one connection, which may be bound as host of either
\* quiz, join either and send any host message.
NextTwoQuizzes ==
    \/ Connection(1) \/ OnClose(1)
    \/ \E a \in AdminIds, q \in QuizIds : AdminConnect(a, q, 1)
    \/ \E code \in {QuizCode(q) : q \in QuizIds} \cup {NoSuchCode} : OnJoinQuiz(1, code)
    \/ HostMessage(1)
    \/ \E i \in TaskIds : Resume(i)

SpecTwoQuizzes == Init /\ [][NextTwoQuizzes]_vars

\* One session with its answers: the first connection is the one the host
\* of quiz 1 binds, the later ones are the ones that join quiz 1; every
\* connection may send every message.
NextAnswers ==
    \/ \E c \in Conns : Connection(c) \/ OnClose(c)
    \/ AdminConnect(1, 1, 1)
    \/ \E c \in Conns \ {1}, code \in {QuizCode(1), NoSuchCode} : OnJoinQuiz(c, code)
    \/ \E c \in Conns : HostMessage(c) \/ AnswerMessage(c)
    \/ \E i \in TaskIds : Resume(i) \/ ResumeAnswer(i)

SpecAnswers == Init /\ [][NextAnswers]_vars

\* The same session over a store whose calls may fail.
NextFaults ==
    \/ NextAnswers
    \/ \E i \in TaskIds : StoreFails(i)

SpecFaults == Init /\ [][NextFaults]_vars

\* The latencies whose score is examined: the ones around the two
\* thresholds, every one of the linear branch, and negative ones.
ScoringTimes == (-2..2) \cup (4990..10010)

\* Scoring: connection 1 hosts quiz 1 and presents its questions,
\* connection 2 joins and answers with any latency, one answer at a time;
\* the store fails the createAnswer of every answer, so that the table
\* stays empty.
NextScoring ==
    \/ Connection(1) \/ Connection(2)
    \/ AdminConnect(1, 1, 1)
    \/ OnJoinQuiz(2, QuizCode(1))
    \/ \E n \in QuestionIds : OnNewQuestion(1, n)
    \/ /\ CanSpawn
       /\ \E n \in QuestionIds, o \in OptionIds, rt \in ScoringTimes :
             OnSubmitAnswer(2, n, o, rt)
    \/ \E i \in TaskIds :
          \/ JoinQuiz_createParticipant(i)
          \/ NewQuestion_getQuestion(i)
          \/ NewQuestion_getQuiz(i)
          \/ At(i, "SUBMIT_ANSWER", "insert") /\ StoreFails(i)

SpecScoring == Init /\ [][NextScoring]_vars

\* latencies a client may report that no clock measures
LatencyTimes == {-5000, -1, 0}

\* The same session with such latencies, over a store that works.
NextLatency ==
    \/ Connection(1) \/ Connection(2)
    \/ AdminConnect(1, 1, 1)
    \/ OnJoinQuiz(2, QuizCode(1))
    \/ \E n \in QuestionIds : OnNewQuestion(1, n)
    \/ \E n \in QuestionIds, o \in OptionIds, rt \in LatencyTimes :
          OnSubmitAnswer(2, n, o, rt)
    \/ \E i \in TaskIds :
          \/ JoinQuiz_createParticipant(i)
          \/ NewQuestion_getQuestion(i)
          \/ NewQuestion_getQuiz(i)
          \/ ResumeAnswer(i)

SpecLatency == Init /\ [][NextLatency]_vars

\* The results of a question: connection 1 hosts quiz 1, presents its
\* questions and ends them; connection 2 joins and answers with any option
\* id, one of the question's or not.
NextResults ==
    \/ Connection(1) \/ Connection(2)
    \/ AdminConnect(1, 1, 1)
    \/ OnJoinQuiz(2, QuizCode(1))
    \/ \E n \in QuestionIds : OnNewQuestion(1, n)
    \/ \E n \in QuestionIds, o \in OptionIds \cup {NoSuchOption},
          rt \in ResponseTimes : OnSubmitAnswer(2, n, o, rt)
    \/ OnQuestionEnded(1)
    \/ \E i \in TaskIds :
          \/ JoinQuiz_createParticipant(i)
          \/ NewQuestion_getQuestion(i)
          \/ NewQuestion_getQuiz(i)
          \/ ResumeAnswer(i)
          \/ QuestionEnded_getQuestion(i)
          \/ QuestionEnded_getAnswersByQuestion(i)
          \/ QuestionEnded_getLeaderboard(i)

SpecResults == Init /\ [][NextResults]_vars

\* Interleaved handlers: one more handler than MaxTasks may be suspended.
TaskSlots == 1..(MaxTasks + 1)

InitInterleaved ==
    /\ clients = [c \in Conns |-> NoClient]
    /\ activeQuizzes = [q \in QuizIds |-> 0]
    /\ objs = [o \in ObjIds |-> NoActiveQuiz]
    /\ quizStatus = [q \in QuizIds |-> "draft"]
    /\ participants = << >>
    /\ answers = << >>
    /\ tasks = [i \in TaskSlots |-> IdleTask]
    /\ sent = {}
    /\ quizzes = << >>
    /\ browser = [c \in Conns |-> NoHook]
    /\ hostView = NoHostView
    /\ userQuestion = NoUserQuestion

\* Connection 1 hosts quiz 1, presents question 1 and ends it; connection 2
\* joins and answers.  The handler of a message may start while the handler
\* of an earlier message, of the same connection or the other, is suspended.
NextOverlap ==
    \/ Connection(1) \/ Connection(2)
    \/ AdminConnect(1, 1, 1)
    \/ OnJoinQuiz(2, QuizCode(1))
    \/ OnNewQuestion(1, 1)
    \/ OnQuestionEnded(1)
    \/ \E o \in OptionIds, rt \in ResponseTimes : OnSubmitAnswer(2, 1, o, rt)
    \/ \E i \in TaskSlots :
          \/ JoinQuiz_createParticipant(i)
          \/ NewQuestion_getQuestion(i)
          \/ NewQuestion_getQuiz(i)
          \/ ResumeAnswer(i)
          \/ QuestionEnded_getQuestion(i)
          \/ QuestionEnded_getAnswersByQuestion(i)
          \/ QuestionEnded_getLeaderboard(i)

SpecOverlap == InitInterleaved /\ [][NextOverlap]_vars

\* Two participants: connection 1 hosts quiz 1 and presents question 1; both
\* connections join the quiz and answer.  A connection sends its next
\* message after the handler of its last one has ended, so the handlers
\* that interleave are handlers of different participants.
NextTwoPlayers ==
    \/ Connection(1) \/ Connection(2)
    \/ AdminConnect(1, 1, 1)
    \/ OnNewQuestion(1, 1)
    \/ \E c \in Conns : ~HasTask(c, tasks) /\ OnJoinQuiz(c, QuizCode(1))
    \/ \E c \in Conns, o \in OptionIds, rt \in ResponseTimes :
          ~HasTask(c, tasks) /\ OnSubmitAnswer(c, 1, o, rt)
    \/ \E i \in TaskSlots :
          \/ JoinQuiz_createParticipant(i)
          \/ NewQuestion_getQuestion(i)
          \/ NewQuestion_getQuiz(i)
          \/ ResumeAnswer(i)

SpecTwoPlayers == InitInterleaved /\ [][NextTwoPlayers]_vars

\* Quiz creation: POST /api/quizzes requests, whose handlers interleave.
NextCodes ==
    \/ PostQuiz
    \/ \E i \in TaskSlots :
          \/ generateQuizCode_getQuizByCode(i)
          \/ PostQuiz_createQuiz(i)

SpecCodes == InitInterleaved /\ [][NextCodes]_vars

\* The clients of the repository against the server: every connection is a
\* browser running useWebSocket; it may send what the join form and the
\* host view send.  The browser runs the listeners of the events delivered
\* to it and the server resumes the handlers whose store call has returned
\* (weak fairness).
NextApp ==
    \/ \E c \in Conns : Connection(c) \/ OnClose(c)
    \/ \E c \in Conns : useWebSocket_open(c)
    \/ \E c \in Conns : handleFirstMessage(c)
    \/ \E c \in Conns, code \in {QuizCode(1), NoSuchCode} : handleJoin(c, code)
    \/ \E c \in Conns, e \in HostViewTypes : HostViewSends(c, e)
    \/ \E i \in TaskIds : JoinQuiz_getQuizByCode(i) \/ JoinQuiz_createParticipant(i)

SpecApp ==
    /\ Init
    /\ [][NextApp]_vars
    /\ WF_vars(\E c \in Conns : useWebSocket_open(c))
    /\ WF_vars(\E c \in Conns : handleFirstMessage(c))
    /\ WF_vars(\E i \in TaskIds :
                  JoinQuiz_getQuizByCode(i) \/ JoinQuiz_createParticipant(i))

\* Presenting and ending: connection 1 hosts quiz 1, presents its questions
\* and ends them, connection 2 joins; the handler of a host message may start
\* while the handler of an earlier one is suspended.
NextPresentEnd ==
    \/ Connection(1) \/ Connection(2)
    \/ AdminConnect(1, 1, 1)
    \/ OnJoinQuiz(2, QuizCode(1))
    \/ \E n \in QuestionIds : OnNewQuestion(1, n)
    \/ OnQuestionEnded(1)
    \/ \E i \in TaskSlots :
          \/ JoinQuiz_createParticipant(i)
          \/ NewQuestion_getQuestion(i)
          \/ NewQuestion_getQuiz(i)
          \/ QuestionEnded_getQuestion(i)
          \/ QuestionEnded_getAnswersByQuestion(i)
          \/ QuestionEnded_getLeaderboard(i)

SpecPresentEnd == InitInterleaved /\ [][NextPresentEnd]_vars

\* The pages: the host view of quiz 1 and the question view of a participant,
\* with the clicks of their users, their timers and the messages that arrive
\* at the participant's socket.  The host view never shows Next Question
\* (its quizState never becomes question_ended), so no step is a click on it.
NextPages ==
    \/ startQuiz
    \/ startQuiz_timeout
    \/ timer_timesUp
    \/ \E type \in UserMessageTypes, n \in QuestionIds : handleMessage(type, n)
    \/ \E o \in OptionIds : handleSelectAnswer(o)
    \/ \E kind \in ResponseKinds : handleAnswerResponse(kind)

SpecPages == Init /\ [][NextPages]_vars

\* ------------------------------------------------------------ the claims
\* the session of quiz q: its phase, its active question, its host binding
Phase(q) == GetActiveQuiz(q).status

ActiveQuestion(q) == GetActiveQuiz(q).currentQuestionId

HostOf(q) == GetActiveQuiz(q).adminWsId

HostOps == {"QUIZ_STARTED", "NEW_QUESTION", "QUESTION_ENDED", "QUIZ_ENDED"}

HasAnswered(participantId, questionId) ==
    \E k \in DOMAIN answers :
        /\ answers[k].participantId = participantId
        /\ answers[k].questionId = questionId

ErrorTo(c, message) == {Msg(c, "ERROR", message, 0)}

\* C1: the store holds at most one Answer per (participantId, questionId).
C1_AtMostOneAnswer ==
    \A j, k \in DOMAIN answers :
        (/\ answers[j].participantId = answers[k].participantId
         /\ answers[j].questionId = answers[k].questionId) => j = k

\* C2: a SUBMIT_ANSWER of a participant that already has an Answer for the
\* active question is answered with an ERROR to the sender, starts no store
\* write and leaves every score as it was.
C2_DuplicateRejected ==
    [][\A c \in Conns, n \in QuestionIds, o \in OptionIds, rt \in ResponseTimes :
          (/\ OnSubmitAnswer(c, n, o, rt)
           /\ clients[c].participantId # 0
           /\ clients[c].quizId # 0
           /\ Phase(clients[c].quizId) = "question_active"
           /\ ActiveQuestion(clients[c].quizId) = n
           /\ HasAnswered(clients[c].participantId, n))
          => (/\ \E m \in sent' : m.to = c /\ m.type = "ERROR"
              /\ tasks' = tasks
              /\ participants' = participants)]_vars

\* C3: a handler of a host-only message runs for connection c on quiz Q only
\* if POST /api/admin/connect has accepted c for Q.
C3_HostOnlyAfterBindHost ==
    \A i \in TaskIds :
        tasks[i].op \in HostOps => tasks[i].quizId \in clients[tasks[i].conn].bound

\* C4: a host-only message of a connection that is anonymous or bound only
\* as participant is answered with ERROR Unauthorized to the sender alone and
\* changes no session, no handler and no quiz status.
C4_NonHostUnauthorized ==
    [][\A c \in Conns :
          (HostMessage(c) /\ ~clients[c].isAdmin)
          => (/\ sent' = ErrorTo(c, "Unauthorized")
              /\ UNCHANGED << activeQuizzes, objs, tasks, quizStatus >>)]_vars

\* C4's case: a participant of a session with an active question was just
\* answered Unauthorized.
C4_Witness ==
    \E c \in Conns :
        /\ sent = ErrorTo(c, "Unauthorized")
        /\ ~clients[c].isAdmin
        /\ clients[c].participantId # 0
        /\ Phase(clients[c].quizId) = "question_active"

\* C5: when another connection is the session's bound host, a host-only
\* message of this connection is answered with ERROR Unauthorized and starts
\* no handler.
C5_FormerHostRejected ==
    [][\A c \in Conns :
          (/\ HostMessage(c)
           /\ clients[c].quizId # 0
           /\ HostOf(clients[c].quizId) \notin {0, c})
          => (sent' = ErrorTo(c, "Unauthorized") /\ tasks' = tasks)]_vars

\* the case of C6: the session of connection c is not accepting answers to
\* question n
NotAccepting(c, n) ==
    /\ clients[c].quizId # 0
    /\ \/ Phase(clients[c].quizId) \in {"waiting", "question_ended", "ended"}
       \/ ActiveQuestion(clients[c].quizId) # n

\* C6 as claimed: every SUBMIT_ANSWER processed while the sender's session
\* is not accepting answers to its question is answered with ERROR
\* "Question is not active", creates no Answer and changes no score.
C6_AlwaysNotActive ==
    [][\A c \in Conns, n \in QuestionIds, o \in OptionIds, rt \in ResponseTimes :
          (OnSubmitAnswer(c, n, o, rt) /\ NotAccepting(c, n))
          => (/\ sent' = ErrorTo(c, "Question is not active")
              /\ tasks' = tasks
              /\ answers' = answers
              /\ participants' = participants)]_vars

\* C6 as amended: such a SUBMIT_ANSWER is answered with ERROR "Question is
\* not active" when the sender is bound to a participant and with ERROR "Not
\* in a quiz" when it is not; either way it creates no Answer and changes no
\* score.
C6_RejectedWhenNotAccepting ==
    [][\A c \in Conns, n \in QuestionIds, o \in OptionIds, rt \in ResponseTimes :
          (OnSubmitAnswer(c, n, o, rt) /\ NotAccepting(c, n))
          => (/\ sent' = ErrorTo(c, IF clients[c].participantId # 0
                                    THEN "Question is not active"
                                    ELSE "Not in a quiz")
              /\ tasks' = tasks
              /\ answers' = answers
              /\ participants' = participants)]_vars

\* C6's case: a participant that submitted after the question was closed was
\* just answered "Question is not active".
C6_Witness ==
    \E c \in Conns :
        /\ sent = ErrorTo(c, "Question is not active")
        /\ clients[c].participantId # 0
        /\ Phase(clients[c].quizId) = "question_ended"
        /\ ActiveQuestion(clients[c].quizId) # 0

\* C7: once a session's phase is ended, no step changes its phase or its
\* active question, and the quiz's stored status stays completed.
C7_EndedIsTerminal ==
    [][\A q \in QuizIds :
          Phase(q) = "ended"
          => (/\ Phase(q)' = "ended"
              /\ ActiveQuestion(q)' = ActiveQuestion(q)
              /\ quizStatus'[q] = "completed")]_vars

\* C8: while a session's phase is question_active, a NEW_QUESTION handler
\* does not replace its active question.
C8_PresentKeepsActiveQuestion ==
    [][\A i \in TaskIds :
          (/\ NewQuestion_getQuestion(i)
           /\ Phase(tasks[i].quizId) = "question_active")
          => ActiveQuestion(tasks[i].quizId)' = ActiveQuestion(tasks[i].quizId)]_vars

\* C9: a QUESTION_ENDED of the host while the session's phase is not
\* question_active is answered with ERROR "No active question" and starts
\* no handler (so no phase change and no results broadcast follow).
C9_EndQuestionOnlyWhenActive ==
    [][\A c \in Conns :
          (/\ OnQuestionEnded(c)
           /\ IsHost(clients[c])
           /\ Phase(clients[c].quizId) \in {"waiting", "question_ended", "ended"})
          => (sent' = ErrorTo(c, "No active question") /\ tasks' = tasks)]_vars

\* C10: no step takes a session from question_active or question_ended
\* back to waiting, and none discards its active question.
C10_StartKeepsRunningSession ==
    [][\A q \in QuizIds :
          Phase(q) \in {"question_active", "question_ended"}
          => (Phase(q)' # "waiting" /\ ActiveQuestion(q)' # 0)]_vars

\* the session table, and what each connection of the clients map is bound to
Sessions == [q \in QuizIds |-> GetActiveQuiz(q)]

Bindings ==
    [c \in Conns |->
        IF clients[c].inMap
        THEN << clients[c].quizId, clients[c].participantId, clients[c].isAdmin >>
        ELSE << >>]

\* C11: the handler of a JOIN_QUIZ with a valid code creates a participant
\* with score 0 and binds the connection to it when the session's phase is
\* not ended, and creates no participant and binds nothing when it is ended.
C11_JoinRefusedWhenEnded ==
    [][\A i \in TaskIds :
          JoinQuiz_createParticipant(i)
          => IF Phase(tasks[i].quizId) = "ended"
             THEN participants' = participants /\ Bindings' = Bindings
             ELSE /\ Len(participants') = Len(participants) + 1
                  /\ participants'[Len(participants')].score = 0
                  /\ clients'[tasks[i].conn].quizId = tasks[i].quizId
                  /\ clients'[tasks[i].conn].participantId = Len(participants')]_vars

\* C12: the handler of a JOIN_QUIZ whose code resolves to no quiz ends with
\* ERROR "Quiz not found" to the sender alone (nothing, if the sender has
\* closed meanwhile), with no participant created, no session entry
\* created and no connection bound.
C12_UnknownCodeRejected ==
    [][\A i \in TaskIds :
          (/\ tasks[i].op = "JOIN_QUIZ"
           /\ \A q \in QuizIds : QuizCode(q) # tasks[i].quizCode
           /\ tasks'[i].op = "idle")
          => (/\ sent' = IF clients[tasks[i].conn].ws = "open"
                         THEN ErrorTo(tasks[i].conn, "Quiz not found")
                         ELSE {}
              /\ participants' = participants
              /\ Sessions' = Sessions
              /\ Bindings' = Bindings)]_vars

\* C12's case: an unbound connection was just answered "Quiz not found"
\* while the session of quiz 1 exists.
C12_Witness ==
    \E c \in Conns :
        /\ sent = ErrorTo(c, "Quiz not found")
        /\ clients[c].quizId = 0
        /\ Phase(1) # "none"

\* C13: a step that sends an ERROR sends nothing else, sends it to the
\* connection whose message is being handled, and leaves the session
\* table, the connection bindings and the store as they were.
C13_ErrorChangesNothing ==
    [][(\E m \in sent' : m.type = "ERROR")
          => (/\ \A m \in sent' : m.type = "ERROR"
              /\ \/ \E c \in Conns :
                       /\ HostMessage(c) \/ AnswerMessage(c)
                       /\ \A m \in sent' : m.to = c
                 \/ \E i \in TaskIds :
                       /\ tasks[i].op # "idle" /\ tasks'[i].op = "idle"
                       /\ \A m \in sent' : m.to = tasks[i].conn
              /\ Sessions' = Sessions
              /\ Bindings' = Bindings
              /\ UNCHANGED << quizStatus, participants, answers >>)]_vars

\* C13's case: the host was just answered "Question not found" in a
\* session with participants.
C13_Witness ==
    \E c \in Conns :
        /\ sent = ErrorTo(c, "Question not found")
        /\ IsHost(clients[c])
        /\ Len(participants) > 0

\* the points of the first k stored answers of participant p
RECURSIVE AnswerPoints(_, _)
AnswerPoints(p, k) ==
    IF k = 0 THEN 0
    ELSE AnswerPoints(p, k - 1)
         + (IF answers[k].participantId = p THEN answers[k].score ELSE 0)

\* C14: when a store call of a handler fails, the sender (if still
\* connected) is sent an ERROR, and no Answer is left without its score
\* increment: every participant's score is the sum of its answers' points.
C14_StoreFaultReported ==
    [][\A i \in TaskIds :
          StoreFails(i)
          => (/\ clients[tasks[i].conn].ws = "open"
                    => \E m \in sent' : m.to = tasks[i].conn /\ m.type = "ERROR"
              /\ \A p \in DOMAIN participants' :
                    participants'[p].score = AnswerPoints(p, Len(answers))')]_vars

\* C15 as claimed: a message that cannot be parsed or whose type is none
\* of the six of the switch is answered with nothing and changes nothing.
C15_OtherMessagesDropped ==
    [][\A c \in Conns, e \in OtherTypes :
          OnOtherMessage(c, e)
          => (/\ sent' = {}
              /\ UNCHANGED << clients, activeQuizzes, objs, tasks, quizStatus,
                              participants, answers >>)]_vars

\* C15 as amended: such a message changes nothing, and it is answered with
\* nothing unless its type is GET_CLIENT_ID or PING, which are answered
\* with CLIENT_ID and PONG to the sender alone.
C15_OnlyTestingMessagesAnswered ==
    [][\A c \in Conns, e \in OtherTypes :
          OnOtherMessage(c, e)
          => (/\ sent' = IF e = "GET_CLIENT_ID" THEN {Msg(c, "CLIENT_ID", "", 0)}
                         ELSE IF e = "PING" THEN {Msg(c, "PONG", "", 0)}
                         ELSE {}
              /\ UNCHANGED << clients, activeQuizzes, objs, tasks, quizStatus,
                              participants, answers >>)]_vars

\* C15's case: the PING of a connection bound to a participant was just
\* answered.
C15_Witness ==
    \E c \in Conns :
        /\ sent = {Msg(c, "PONG", "", 0)}
        /\ clients[c].participantId # 0

\* C16: the close of the connection bound as a session's host keeps the
\* session's phase and active question and empties its host binding; and
\* while the host binding is empty every host message for the session is
\* answered Unauthorized and starts no handler.
C16_HostCloseLeavesNoHost ==
    [][\A q \in QuizIds, c \in Conns :
          /\ (OnClose(c) /\ HostOf(q) = c)
                => (/\ Phase(q)' = Phase(q)
                    /\ ActiveQuestion(q)' = ActiveQuestion(q)
                    /\ HostOf(q)' = 0)
          /\ (HostMessage(c) /\ clients[c].quizId = q /\ HostOf(q) = 0)
                => (sent' = ErrorTo(c, "Unauthorized") /\ tasks' = tasks)]_vars

\* C17: a session leaves question_active, or changes its active question
\* while in it, only in a step of the handler of a host message of a
\* connection bound as host; every other step keeps the question open.
C17_OnlyHostLeavesActive ==
    [][\A q \in QuizIds :
          (/\ Phase(q) = "question_active"
           /\ \/ Phase(q)' # "question_active"
              \/ ActiveQuestion(q)' # ActiveQuestion(q))
          => \E i \in TaskIds :
                 /\ tasks[i].op \in HostOps
                 /\ tasks[i].quizId = q
                 /\ clients[tasks[i].conn].isAdmin
                 /\ tasks'[i] # tasks[i]]_vars

\* C17's case: answers were stored while the question was open, and the
\* host's QUESTION_ENDED has just closed it.
C17_Witness ==
    \E i \in TaskIds :
        /\ At(i, "QUESTION_ENDED", "getAnswersByQuestion")
        /\ Phase(tasks[i].quizId) = "question_ended"
        /\ Len(answers) > 0

\* the scoring policy, in exact arithmetic: 100 + floor(50 * (1 - (t - 5000) / 5000))
\* is 100 + floor(50 * (5000 - (t - 5000)) / 5000)
ReferenceScore(isCorrect, responseTimeMs) ==
    IF ~isCorrect THEN 0
    ELSE IF responseTimeMs < 5000 THEN 150
    ELSE IF responseTimeMs < 10000
    THEN 100 + ((50 * (5000 - (responseTimeMs - 5000))) \div 5000)
    ELSE 100

\* C18: for every latency >= 0 the score the server computes for an answer
\* is the one of the scoring policy, and the client's calculateScore gives
\* the same value.
C18_ScoreIsReference ==
    \A i \in TaskIds :
        (tasks[i].op = "SUBMIT_ANSWER" /\ tasks[i].responseTime >= 0)
        => (/\ tasks[i].score
                  = ReferenceScore(tasks[i].isCorrect, tasks[i].responseTime)
            /\ calculateScore(tasks[i].isCorrect, tasks[i].responseTime)
                  = tasks[i].score)

C20_NegativeLatencyClamped ==
    \A k \in DOMAIN answers :
        /\ (answers[k].isCorrect /\ answers[k].responseTime < 0)
              => answers[k].score = Score(TRUE, 0)
        /\ answers[k].responseTime >= 0

\* the leaderboard of the session of quiz q as the specification has it:
\* every participant of the session once, by descending score, and of two
\* participants of equal score the one that joined earlier first
Ranked(l, q) ==
    /\ Len(l) = Cardinality(getParticipantsByQuiz(q))
    /\ {l[k].id : k \in DOMAIN l} = getParticipantsByQuiz(q)
    /\ \A k \in DOMAIN l : l[k].score = participants[l[k].id].score
    /\ \A j, k \in DOMAIN l :
          j < k => \/ l[j].score > l[k].score
                   \/ l[j].score = l[k].score /\ l[j].id < l[k].id

\* C21: the leaderboard a handler reads with getLeaderboard and sends (to the
\* host after an answer, to the session at its end) lists each participant
\* of the session exactly once, in descending order of score, ties in the
\* order of joining.
C21_LeaderboardRanked ==
    [][\A i \in TaskIds :
          (SubmitAnswer_getLeaderboard(i) \/ QuizEnded_getLeaderboard(i))
             => \A m \in sent' : Ranked(m.leaderboard, tasks[i].quizId)]_vars

\* C22: the NEW_QUESTION broadcast is the same whichever options of the
\* question are marked correct: its options are the sanitized options of
\* the question under every marking.
C22_BroadcastHidesCorrectness ==
    \A m \in sent :
        m.type = "NEW_QUESTION"
           => LET options == QuestionOptions(m.questionId)
              IN  \A flags \in [DOMAIN options -> BOOLEAN] :
                     m.options = sanitizedOptions(
                         [k \in DOMAIN options |->
                             [options[k] EXCEPT !.isCorrect = flags[k]]])

\* a participant is sent the options of a presented question
C22_Witness ==
    \E m \in sent :
        /\ m.type = "NEW_QUESTION"
        /\ clients[m.to].participantId # 0
        /\ Len(m.options) = Len(QuestionOptions(m.questionId))
        /\ \A k \in DOMAIN m.options : m.options[k].id = QuestionOptions(m.questionId)[k].id

\* the double f is the ratio num / den (for the small ratios of a results
\* breakdown: a double of more than 20 significant bits is none of them)
IsExactly(f, num, den) ==
    /\ Len(f.bits) <= 20
    /\ f.scale \in -20..20
    /\ IF f.scale >= 0
       THEN BitsInt(f.bits) * den = num * 2 ^ f.scale
       ELSE BitsInt(f.bits) * 2 ^ (0 - f.scale) * den = num

\* the sum of the counts of the first k options of a results breakdown
RECURSIVE SumCounts(_, _)
SumCounts(stats, k) ==
    IF k = 0 THEN 0 ELSE stats[k].count + SumCounts(stats, k - 1)

\* C23: in the results QUESTION_ENDED computes, every option's count is the
\* number of Answers of the question that chose it, its percentage is
\* 100 * count / total, and when the question has an Answer the counts of
\* all options add up to the total number of its Answers.
C23_ResultsAccountForEveryAnswer ==
    [][\A i \in TaskIds :
          QuestionEnded_getAnswersByQuestion(i)
             => LET stats == tasks'[i].optionStats
                    rows == getAnswersByQuestion(tasks[i].questionId)
                    total == Cardinality(rows)
                IN  /\ \A j \in DOMAIN stats :
                          /\ stats[j].count =
                                Cardinality({k \in rows : answers[k].selectedOption
                                                            = stats[j].optionId})
                          /\ total > 0 => IsExactly(stats[j].percentage,
                                                    100 * stats[j].count, total)
                    /\ total > 0 => SumCounts(stats, Len(stats)) = total]_vars

\* C24: no step, of interleaved SUBMIT_ANSWER handlers included, decreases
\* the cumulative score of a participant.
C24_ScoreNeverDecreases ==
    [][\A p \in DOMAIN participants :
          participants'[p].score >= participants[p].score]_vars

\* no SUBMIT_ANSWER handler is between its insert and its score update
NoAnswerInFlight ==
    \A i \in DOMAIN tasks :
        tasks[i].op = "SUBMIT_ANSWER" => tasks[i].pc = "getLeaderboard"

\* C25: when SUBMIT_ANSWER handlers of different participants interleave at
\* their store calls no update is lost: once the handlers in flight have
\* completed their store updates, the score of every participant is the
\* sum of the points of its recorded Answers.
C25_NoLostUpdate ==
    NoAnswerInFlight
       => \A p \in DOMAIN participants :
             participants[p].score = AnswerPoints(p, Len(answers))

\* the SUBMIT_ANSWER handlers of two participants are suspended together,
\* both after their score update, and a score is not zero
C25_Witness ==
    /\ NoAnswerInFlight
    /\ Len(answers) = 2
    /\ answers[1].participantId # answers[2].participantId
    /\ \A i \in DOMAIN tasks : tasks[i].op = "SUBMIT_ANSWER"
    /\ \E p \in DOMAIN participants : participants[p].score > 0

\* C30: an Answer is persisted only while the session of its quiz is in
\* phase question_active with the Answer's question active, also when the
\* host's QUESTION_ENDED takes effect while the SUBMIT_ANSWER handler is
\* suspended on its store call.
C30_AnswerOnlyWhileActive ==
    [][\A i \in DOMAIN tasks :
          CreateAnswer_insert(i)
             => QuestionIsActive(GetActiveQuiz(tasks[i].quizId),
                                 tasks[i].questionId)]_vars

\* C26: a session in phase question_active has an active question, and it
\* is a question of the session's quiz; a session in phase waiting has no
\* active question.
C26_ActiveQuestionOfQuiz ==
    \A q \in QuizIds :
        /\ Phase(q) = "question_active"
               => ActiveQuestion(q) # 0 /\ QuestionQuizId(ActiveQuestion(q)) = q
        /\ Phase(q) = "waiting" => ActiveQuestion(q) = 0

\* the session of quiz 1 has a question presented while the one of quiz 2
\* waits, its host having been refused a question
C26_Witness ==
    /\ Phase(1) = "question_active"
    /\ ActiveQuestion(1) \in QuestionIds
    /\ Phase(2) = "waiting"
    /\ clients[1].quizId = 2
    /\ sent = ErrorTo(1, "Question not found")

\* the alphabet of the join codes as the specification has it
Alphabet ==
    {"A", "B", "C", "D", "E", "F", "G", "H", "J", "K", "L", "M", "N", "P", "Q",
     "R", "S", "T", "U", "V", "W", "X", "Y", "Z", "2", "3", "4", "5", "6", "7",
     "8", "9"}

\* C27: the code generateQuizCode returns has exactly 6 characters, all of
\* the alphabet, and is the code of no quiz the store holds when it returns
\* (a drawn code that collides is not returned: it is drawn again).
C27_CodeIsFresh ==
    [][\A i \in DOMAIN tasks :
          (generateQuizCode_getQuizByCode(i) /\ tasks'[i].pc = "createQuiz")
             => LET code == tasks'[i].quizCode
                IN  /\ Len(code) = 6
                    /\ \A k \in DOMAIN code : code[k] \in Alphabet
                    /\ \A q \in QuizIds : QuizCode(q) # code
                    /\ \A k \in DOMAIN quizzes' : quizzes'[k] # code]_vars

\* generateQuizCode has returned a code while the store holds a created
\* quiz, and the code differs from that quiz's in its last character only
C27_Witness ==
    \E i \in DOMAIN tasks :
        /\ At(i, "POST_QUIZ", "createQuiz")
        /\ Len(quizzes) = 1
        /\ tasks[i].quizCode # quizzes[1]
        /\ SubSeq(tasks[i].quizCode, 1, CodeLength - 1)
              = SubSeq(quizzes[1], 1, CodeLength - 1)

\* C28: a client whose channel has opened eventually learns its connection
\* id: the hook's wsClientId becomes non-null (unless the channel closes
\* first).
C28_ClientLearnsItsId ==
    \A c \in Conns :
        browser[c].connected
           ~> (browser[c].wsClientId # 0 \/ ~browser[c].connected)

\* C29: every message the host view sends has a type the server's switch
\* has a case for.
C29_ClientTypesHandled ==
    [][\A c \in Conns, e \in HostViewTypes :
          HostViewSends(c, e) => e \in DispatcherTypes]_vars

\* C31: the question whose results a QUESTION_ENDED handler broadcasts is
\* the session's active question at the moment the handler sets the phase to
\* question_ended, also when a NEW_QUESTION for another question takes
\* effect while the handler is suspended on its store call.
C31_ResultsOfTheEndedQuestion ==
    [][\A i \in DOMAIN tasks :
          QuestionEnded_getQuestion(i)
             => /\ Phase(tasks[i].quizId)' = "question_ended"
                /\ ActiveQuestion(tasks[i].quizId)' = tasks[i].questionId]_vars

\* C32: once the channel of a connection has closed, the clients map holds
\* no entry under the connection's id, also when a JOIN_QUIZ handler of the
\* connection was suspended on a store call at the close.
C32_ClosedConnectionLeavesRegistry ==
    \A c \in Conns : clients[c].ws = "closed" => ~clients[c].inMap

\* C33: a session's host id, when set, names a connection that the clients
\* map holds, that is flagged host and that is affiliated with that session.
C33_HostIdNamesBoundHost ==
    \A q \in QuizIds :
        HostOf(q) # 0
           => /\ clients[HostOf(q)].inMap
              /\ clients[HostOf(q)].isAdmin
              /\ clients[HostOf(q)].quizId = q

\* C34: no connection is both host and participant: a connection flagged
\* host has no participant id.
C34_HostIsNoParticipant ==
    \A c \in Conns : clients[c].isAdmin => clients[c].participantId = 0

\* C35: no two stored quizzes share a join code, after any sequence of
\* POST /api/quizzes requests, requests whose generateQuizCode and createQuiz
\* calls interleave included.
C35_CodesAreUnique ==
    /\ \A j, k \in DOMAIN quizzes : quizzes[j] = quizzes[k] => j = k
    /\ \A k \in DOMAIN quizzes, q \in QuizIds : quizzes[k] # QuizCode(q)

\* two requests drew the same code and both lookups found it free: one has
\* created its quiz, the other is about to call createQuiz with that code
C35_Witness ==
    \E i \in DOMAIN tasks :
        /\ At(i, "POST_QUIZ", "createQuiz")
        /\ \E k \in DOMAIN quizzes : quizzes[k] = tasks[i].quizCode

\* the ids the NEW_QUESTION messages of the host view carry, in the order sent
Presented == SelectSeq(hostView.socket, LAMBDA m : m.type = "NEW_QUESTION")

\* C36: the host view presents the questions of the quiz in order, each
\* once: its k-th NEW_QUESTION carries the id of the k-th question, and it
\* sends QUIZ_ENDED only after it has presented the last one.
C36_QuestionsInOrder ==
    /\ Len(Presented) <= Len(questionsData)
    /\ \A k \in DOMAIN Presented :
          k <= Len(questionsData) => Presented[k].questionId = questionsData[k]
    /\ (\E k \in DOMAIN hostView.socket : hostView.socket[k].type = "QUIZ_ENDED")
          => Len(Presented) = Len(questionsData)

\* C37: when the countdown of a presented question reaches zero the host
\* view sends QUESTION_ENDED with the id of that question, the first
\* question included.
C37_TimesUpEndsQuestion ==
    [][timer_timesUp
          => hostView'.socket =
                Append(hostView.socket,
                       [type |-> "QUESTION_ENDED",
                        questionId |-> hostView.timer.question])]_vars

\* handleSelectAnswer sends nothing
Guarded(u) == u.question = 0 \/ Answered(u)

=============================================================================
